---- MODULE Spec2Model ----
(***************************************************************************)
(* NILM ESP32 node: the cooperative loop of main.cpp (link and session     *)
(* supervision, sensor sampling, periodic publishing), the command         *)
(* dispatcher mqttCallback and the RelayControl actuator bank.             *)
(*                                                                         *)
(* Time is the millisecond counter millis(); delay(n) advances it by n.    *)
(* The network link, the broker and the sensor are the environment.        *)
(***************************************************************************)
EXTENDS Integers, Sequences, FiniteSets, TLC

VARIABLES
  pc,                        \* position of the single thread of control (setup / loop)
  ret,                       \* where connectToWiFi / reconnectMQTT return to
  clock,                     \* ms since boot; millis() is Millis(clock)
  iter,                      \* number of completed loop() iterations
  link,                      \* WiFi.status() == WL_CONNECTED
  session,                   \* mqttClient.connected()
  subscribed,                \* the current session holds a subscription to commandTopic
  attempts,                  \* the local counter of connectToWiFi / reconnectMQTT (0 outside)
  sensorAvailable,           \* main.cpp:12
  sensorData,                \* main.cpp:35
  currentMillis,             \* loop() local, main.cpp:154 and :234
  lastWiFiCheck,             \* loop() static, main.cpp:149
  lastStatusPrint,           \* loop() static, main.cpp:150
  lastMqttReconnectAttempt,  \* loop() static, main.cpp:188
  lastSensorRead,            \* main.cpp:22
  lastMqttPublish,           \* main.cpp:23
  ch1_state,                 \* RelayControl::ch1_state
  ch2_state,                 \* RelayControl::ch2_state
  pin,                       \* level last written to each relay GPIO
  call,                      \* RelayControl method in progress
  ops,                       \* statements of that method still to run
  cbpc,                      \* position inside mqttCallback
  msg,                       \* payload handed to mqttCallback
  doc,                       \* the parsed JSON object
  di,                        \* index of the next directive check of mqttCallback
  obs                        \* observation record (what happened, for the properties)

vars == <<pc, ret, clock, iter, link, session, subscribed, attempts, sensorAvailable,
          sensorData, currentMillis, lastWiFiCheck, lastStatusPrint,
          lastMqttReconnectAttempt, lastSensorRead, lastMqttPublish,
          ch1_state, ch2_state, pin, call, ops, cbpc, msg, doc, di, obs>>

progVars == <<pc, ret, clock, iter, link, session, subscribed, attempts, sensorAvailable,
              sensorData, currentMillis, lastWiFiCheck, lastStatusPrint,
              lastMqttReconnectAttempt, lastSensorRead, lastMqttPublish>>

relayVars == <<ch1_state, ch2_state, pin, call, ops>>

cbVars == <<cbpc, msg, doc, di>>

timerVars == <<currentMillis, lastWiFiCheck, lastStatusPrint, lastMqttReconnectAttempt,
               lastSensorRead, lastMqttPublish>>

(***************************************************************************)
(* Bounds of the model.                                                    *)
(***************************************************************************)
\* most members in one command payload
MaxKeys == 3
\* loop() iterations explored
MaxIter == 3
\* status polls of connectToWiFi within which the link may associate
MaxLinkUpPoll == 0
\* connect attempts of reconnectMQTT within which the broker may accept
MaxAcceptTry == 1
\* length in ms of a stalled loop() iteration: 3.5 publish intervals
StallMillis == 3500
\* losses of the link or of the session explored in one run
MaxFaults == 1
\* command payloads delivered in one run of the whole loop
MaxCommands == 1
\* bits of the millisecond counter explored (unsigned long has 32): the counter wraps
\* at 2^WordBits, far above every interval and every time setup() and MaxIter
\* iterations can take
WordBits == 20

(***************************************************************************)
(* RelayControl (relay_control.h).                                         *)
(***************************************************************************)
RELAY_CH1_PIN == 4
RELAY_CH2_PIN == 5
RELAY_OFF == "LOW"
RELAY_ON == "HIGH"

\* state ? RELAY_ON : RELAY_OFF
Level(state) == IF state THEN RELAY_ON ELSE RELAY_OFF

DigitalWrite(p, state) == [op |-> "digitalWrite", pin |-> p, state |-> state]
Assign(p, state) == [op |-> "assign", pin |-> p, state |-> state]

\* a deduplicating setChannel1: no write when the flag already holds the value
setChannel1_dedup(state) ==
  IF ch1_state = state THEN <<>>
  ELSE <<DigitalWrite(RELAY_CH1_PIN, state), Assign(RELAY_CH1_PIN, state)>>

\* a setChannel1 that updates the flag before it writes the pin
setChannel1_flagFirst(state) ==
  <<Assign(RELAY_CH1_PIN, state), DigitalWrite(RELAY_CH1_PIN, state)>>

\* the statements of setChannel1(state), in order
setChannel1(state) ==
  <<DigitalWrite(RELAY_CH1_PIN, state), Assign(RELAY_CH1_PIN, state)>>

\* a setChannel2 that records the request and leaves the write for later
setChannel2_deferred(state) ==
  <<Assign(RELAY_CH2_PIN, state)>>

\* the statements of setChannel2(state), in order
setChannel2(state) ==
  <<DigitalWrite(RELAY_CH2_PIN, state), Assign(RELAY_CH2_PIN, state)>>

getChannel1State == ch1_state
getChannel2State == ch2_state

\* a toggle that sets the channel instead of inverting it
toggleChannel1_set == setChannel1(TRUE)

toggleChannel1 == setChannel1(~ch1_state)
toggleChannel2 == setChannel2(~ch2_state)

allOff == setChannel1(FALSE) \o setChannel2(FALSE)

\* an allOn that forgets channel 2
allOn_ch1only == setChannel1(TRUE)

allOn == setChannel1(TRUE) \o setChannel2(TRUE)

\* a begin() that leaves both relays energised
begin_on ==
  <<DigitalWrite(RELAY_CH1_PIN, TRUE), DigitalWrite(RELAY_CH2_PIN, TRUE),
    Assign(RELAY_CH1_PIN, TRUE), Assign(RELAY_CH2_PIN, TRUE)>>

begin ==
  <<DigitalWrite(RELAY_CH1_PIN, FALSE), DigitalWrite(RELAY_CH2_PIN, FALSE),
    Assign(RELAY_CH1_PIN, FALSE), Assign(RELAY_CH2_PIN, FALSE)>>

(***************************************************************************)
(* Command payloads and their parse (main.cpp:338-355).                    *)
(***************************************************************************)
CommandKeys == {"relay_ch1", "relay_ch2", "toggle_ch1", "toggle_ch2", "all_off", "all_on"}

\* the keys a payload may carry: the six recognised ones and one the dispatcher ignores
Keys == CommandKeys \cup {"led"}

\* a JSON member: <<key, boolean value>>
Members == Keys \X BOOLEAN

DistinctKeys(ms) == \A i, j \in DOMAIN ms : i # j => ms[i][1] # ms[j][1]

\* the member lists of a payload, in the order they are written in it
MemberSeqs == {ms \in UNION {[1..k -> Members] : k \in 0..MaxKeys} : DistinctKeys(ms)}

\* a payload: well-formed JSON or not, and the members its text spells out
Messages == [wellFormed : BOOLEAN, members : MemberSeqs]

\* the payloads delivered while the whole loop is explored: one that calls every
\* mutator of RelayControl, and one that does not parse
LoopMessages ==
  {[wellFormed |-> TRUE,
    members |-> <<<<"all_on", TRUE>>, <<"all_off", TRUE>>, <<"toggle_ch2", TRUE>>,
                  <<"toggle_ch1", TRUE>>, <<"relay_ch2", TRUE>>, <<"relay_ch1", TRUE>>>>],
   [wellFormed |-> FALSE, members |-> <<<<"all_on", TRUE>>>>]}

NoMsg == [wellFormed |-> FALSE, members |-> <<>>]
NoDoc == [k \in {} |-> FALSE]

\* a parser that accepts every payload
DeserializationError_never(m) == FALSE

\* deserializeJson's result converted to bool: true on failure
DeserializationError(m) == ~m.wellFormed

\* the JsonObject deserializeJson builds: member values by key, the order forgotten
deserializeJson(m) ==
  [k \in {m.members[i][1] : i \in DOMAIN m.members} |->
     LET i == CHOOSE j \in DOMAIN m.members : m.members[j][1] = k
     IN  m.members[i][2]]

containsKey(d, k) == k \in DOMAIN d

(***************************************************************************)
(* mqttCallback (main.cpp:338-396): the directive checks in source order,  *)
(* then the acknowledgment.                                                *)
(***************************************************************************)
\* the toggles checked before the explicit sets
CallbackSteps_toggleFirst ==
  <<"toggle_ch1", "toggle_ch2", "relay_ch1", "relay_ch2", "all_off", "all_on", "ack">>

\* all-on checked before all-off
CallbackSteps_onBeforeOff ==
  <<"relay_ch1", "relay_ch2", "toggle_ch1", "toggle_ch2", "all_on", "all_off", "ack">>

\* the acknowledgment built and published before the directives are applied
CallbackSteps_ackFirst ==
  <<"ack", "relay_ch1", "relay_ch2", "toggle_ch1", "toggle_ch2", "all_off", "all_on">>

\* no acknowledgment at all
CallbackSteps_noAck ==
  <<"relay_ch1", "relay_ch2", "toggle_ch1", "toggle_ch2", "all_off", "all_on">>

CallbackSteps ==
  <<"relay_ch1", "relay_ch2", "toggle_ch1", "toggle_ch2", "all_off", "all_on", "ack">>

\* the RelayControl method a present key calls
MethodOf(k) ==
  CASE k = "relay_ch1" -> "setChannel1"
    [] k = "relay_ch2" -> "setChannel2"
    [] k = "toggle_ch1" -> "toggleChannel1"
    [] k = "toggle_ch2" -> "toggleChannel2"
    [] k = "all_off" -> "allOff"
    [] k = "all_on" -> "allOn"

\* its statements; doc[k].as<bool>() is the argument of the explicit sets
StatementsOf(k) ==
  CASE k = "relay_ch1" -> setChannel1(doc[k])
    [] k = "relay_ch2" -> setChannel2(doc[k])
    [] k = "toggle_ch1" -> toggleChannel1
    [] k = "toggle_ch2" -> toggleChannel2
    [] k = "all_off" -> allOff
    [] k = "all_on" -> allOn

\* the acknowledgment document of main.cpp:387-391
AckPayload ==
  [topic |-> "status", status |-> "ok",
   relay_ch1 |-> getChannel1State, relay_ch2 |-> getChannel2State]

NoAck == [topic |-> "none", status |-> "none", relay_ch1 |-> FALSE, relay_ch2 |-> FALSE]

(***************************************************************************)
(* Observations kept for the properties. None of them is read by the       *)
(* program's actions.                                                      *)
(*   pre       ActuatorState when the running callback was entered         *)
(*   pinLog    the digitalWrite calls of the running callback, in order    *)
(*   acks      acknowledgments published by the running callback           *)
(*   ack       the last acknowledgment payload                             *)
(*   ackWrites Len(pinLog) when the acknowledgment was published           *)
(*   offRun    OFF writes per pin of the latest allOff() calls made with   *)
(*             no other mutator call between them (at most the last two)   *)
(*   conn      from a successful mqttClient.connect() until the next       *)
(*             scheduled publish trigger or the loss of that session:      *)
(*             open, whether the connect was the one of setup(), and the   *)
(*             subscribe calls and telemetry publishes so far (counted up  *)
(*             to 2); NoConn otherwise                                     *)
(*   stall     the time the previous iteration took                        *)
(*   stalled   an iteration has stalled                                    *)
(*   trig      publish triggers of the current iteration                   *)
(*   lastTrig  currentMillis of the latest publish trigger (-1: none yet)  *)
(*   gap       in the iteration of a publish trigger: its currentMillis    *)
(*             minus that of the trigger before it (-1: none)              *)
(*   captured  readSensor has run                                          *)
(*   faults    losses of the link or of the session so far                 *)
(*   it        of the current iteration: whether its session step has run, *)
(*             the link and session status that step read, the calls of    *)
(*             mqttClient.loop() and the payloads they handed to           *)
(*             mqttCallback                                                *)
(*   pubs      the calls of publishSensorData() / publishRelayStatus() of  *)
(*             the current iteration, from its publish trigger on if it    *)
(*             has one: the link and session status the call read and the  *)
(*             message it published, if any                                *)
(*   run       of the connectToWiFi() / reconnectMQTT() call in progress   *)
(*             or just returned: passes of the poll loop, calls of         *)
(*             mqttClient.connect(), two second pauses; the link status    *)
(*             reconnectMQTT() read on entry; whether one of its connect   *)
(*             calls was made with the link down, or with the session      *)
(*             already connected                                           *)
(*   failed    connectToWiFi() / reconnectMQTT() calls that have returned  *)
(*             without the link / the session since the last one that      *)
(*             returned with it (counted up to 2)                          *)
(*   cmds      command payloads delivered so far by the whole loop         *)
(***************************************************************************)
NoWrites == [p \in {RELAY_CH1_PIN, RELAY_CH2_PIN} |-> 0]

NoConn == [open |-> FALSE, boot |-> FALSE, subs |-> 0, telem |-> 0]

NoRun == [polls |-> 0, connects |-> 0, pauses |-> 0, linkSeen |-> FALSE,
          offline |-> FALSE, onSession |-> FALSE]

NoIt == [checked |-> FALSE, link |-> FALSE, session |-> FALSE, pumps |-> 0,
         dispatched |-> 0]

ObsInit ==
  [pre |-> <<FALSE, FALSE>>, pinLog |-> <<>>, acks |-> 0, ack |-> NoAck,
   ackWrites |-> 0, offRun |-> <<>>, conn |-> NoConn, stall |-> 0, stalled |-> FALSE,
   trig |-> 0,
   lastTrig |-> -1, gap |-> -1, captured |-> FALSE, faults |-> 0, cmds |-> 0,
   run |-> NoRun, failed |-> [wifi |-> 0, mqtt |-> 0], it |-> NoIt, pubs |-> <<>>]

UpTo2(n) == IF n < 2 THEN n + 1 ELSE 2

\* offRun after a mutator is called
OffRunCall(method) ==
  IF method = "allOff"
  THEN Append(IF Len(obs.offRun) = 2 THEN Tail(obs.offRun) ELSE obs.offRun, NoWrites)
  ELSE <<>>

\* offRun after a digitalWrite
OffRunWrite(p, level) ==
  IF call = "allOff" /\ level = RELAY_OFF /\ obs.offRun # <<>>
  THEN [obs.offRun EXCEPT ![Len(obs.offRun)][p] = @ + 1]
  ELSE obs.offRun

(***************************************************************************)
(* The order of the steps of one loop() iteration (main.cpp:147-248):      *)
(* link check, session step, sensor sampling, publish, delay.              *)
(***************************************************************************)
\* an iteration that publishes before it samples the sensor
LoopOrder_publishFirst == <<"loop_top", "session", "publish", "sample", "yield">>

LoopOrder == <<"loop_top", "session", "sample", "publish", "yield">>

\* the step that follows step p
After(p) == LoopOrder[(CHOOSE i \in DOMAIN LoopOrder : LoopOrder[i] = p) + 1]

(***************************************************************************)
(* One statement of the RelayControl method in progress                    *)
(* (relay_control.h:38-88): a digitalWrite or the update of a flag.        *)
(***************************************************************************)
RelayStep ==
  /\ ops # <<>>
  /\ LET o == Head(ops) IN
       IF o.op = "digitalWrite"
       THEN /\ pin' = [pin EXCEPT ![o.pin] = Level(o.state)]
            /\ obs' = [obs EXCEPT !.pinLog = IF cbpc = "idle" THEN @
                                              ELSE Append(@, <<o.pin, Level(o.state)>>),
                                   !.offRun = OffRunWrite(o.pin, Level(o.state))]
            /\ UNCHANGED <<ch1_state, ch2_state>>
       ELSE /\ ch1_state' = IF o.pin = RELAY_CH1_PIN THEN o.state ELSE ch1_state
            /\ ch2_state' = IF o.pin = RELAY_CH2_PIN THEN o.state ELSE ch2_state
            /\ UNCHANGED <<pin, obs>>
  /\ ops' = Tail(ops)
  /\ call' = IF Tail(ops) = <<>> THEN "none" ELSE call
  /\ UNCHANGED <<progVars, cbVars>>

(***************************************************************************)
(* mqttClient.loop() (main.cpp:224): PubSubClient hands at most one        *)
(* inbound publish per call to the registered callback. A command arrives  *)
(* only on a session that is connected and subscribed.                     *)
(***************************************************************************)
PumpWith(M, counted) ==
  /\ pc = "pump"
  /\ cbpc = "idle"
  /\ \/ /\ pc' = After("session")
        /\ obs' = [obs EXCEPT !.it.pumps = @ + 1]
        /\ UNCHANGED cbVars
     \/ /\ session /\ subscribed
        /\ counted => obs.cmds < MaxCommands
        /\ \E m \in M :
             /\ msg' = m
             /\ cbpc' = "parse"
             /\ pc' = "callback"
             /\ obs' = [obs EXCEPT !.pre = <<ch1_state, ch2_state>>, !.pinLog = <<>>,
                                   !.acks = 0, !.ack = NoAck, !.ackWrites = 0,
                                   !.cmds = IF counted THEN @ + 1 ELSE @,
                                   !.it.pumps = @ + 1, !.it.dispatched = @ + 1]
             /\ UNCHANGED <<doc, di>>
  /\ UNCHANGED <<ret, clock, iter, link, session, subscribed, attempts, sensorAvailable,
                 sensorData, timerVars, relayVars>>

Pump == PumpWith(LoopMessages, TRUE)

PumpAny == PumpWith(Messages, FALSE)

\* main.cpp:338-355: the payload is parsed; a parse failure returns at once
CallbackParse ==
  /\ cbpc = "parse"
  /\ IF DeserializationError(msg)
     THEN /\ cbpc' = "return"
          /\ UNCHANGED <<doc, di>>
     ELSE /\ doc' = deserializeJson(msg)
          /\ di' = 1
          /\ cbpc' = "run"
  /\ UNCHANGED <<msg, obs, progVars, relayVars>>

\* main.cpp:357-395: the next directive check, or the acknowledgment
CallbackStep ==
  /\ cbpc = "run"
  /\ ops = <<>>
  /\ di <= Len(CallbackSteps)
  /\ LET k == CallbackSteps[di] IN
       IF k = "ack"
       THEN /\ obs' = [obs EXCEPT !.acks = @ + 1, !.ack = AckPayload,
                                   !.ackWrites = Len(obs.pinLog)]
            /\ UNCHANGED relayVars
       ELSE IF containsKey(doc, k)
       THEN /\ ops' = StatementsOf(k)
            /\ call' = IF StatementsOf(k) = <<>> THEN "none" ELSE MethodOf(k)
            /\ obs' = [obs EXCEPT !.offRun = OffRunCall(MethodOf(k))]
            /\ UNCHANGED <<ch1_state, ch2_state, pin>>
       ELSE UNCHANGED <<relayVars, obs>>
  /\ di' = di + 1
  /\ UNCHANGED <<cbpc, msg, doc, progVars>>

\* main.cpp:396: the end of the callback's body
CallbackEnd ==
  /\ cbpc = "run"
  /\ ops = <<>>
  /\ di > Len(CallbackSteps)
  /\ cbpc' = "return"
  /\ UNCHANGED <<msg, doc, di, obs, relayVars, progVars>>

\* the callback returns into loop(), after mqttClient.loop(); its locals and the
\* observations of this call end with it
CallbackReturn ==
  /\ cbpc = "return"
  /\ cbpc' = "idle"
  /\ msg' = NoMsg
  /\ doc' = NoDoc
  /\ di' = 1
  /\ obs' = [obs EXCEPT !.pre = <<FALSE, FALSE>>, !.pinLog = <<>>, !.acks = 0,
                        !.ack = NoAck, !.ackWrites = 0]
  /\ pc' = After("session")
  /\ UNCHANGED <<relayVars, ret, clock, iter, link, session, subscribed,
                 attempts, sensorAvailable, sensorData, timerVars>>

(***************************************************************************)
(* The dispatcher alone: the node has booted, its session is connected and *)
(* subscribed, and command payloads of every shape are delivered one after *)
(* the other.                                                              *)
(***************************************************************************)
\* the delays of setup() up to the sensor probe (main.cpp:54, :63, :67; ina219.h:76, :80)
BootMillis == 3000 + 100 + 100 + 10 + 10

InitDispatch ==
  /\ pc = "pump"
  /\ ret = "none"
  /\ clock = BootMillis
  /\ iter = 0
  /\ link = TRUE
  /\ session = TRUE
  /\ subscribed = TRUE
  /\ attempts = 0
  /\ sensorAvailable = FALSE
  /\ sensorData = [current |-> 0, voltage |-> 0, power |-> 0, timestamp |-> 0]
  /\ currentMillis = BootMillis
  /\ lastWiFiCheck = BootMillis
  /\ lastStatusPrint = 0
  /\ lastMqttReconnectAttempt = 0
  /\ lastSensorRead = BootMillis
  /\ lastMqttPublish = BootMillis
  /\ ch1_state = FALSE
  /\ ch2_state = FALSE
  /\ pin = [p \in {RELAY_CH1_PIN, RELAY_CH2_PIN} |-> RELAY_OFF]
  /\ call = "none"
  /\ ops = <<>>
  /\ cbpc = "idle"
  /\ msg = NoMsg
  /\ doc = NoDoc
  /\ di = 1
  /\ obs = ObsInit

\* main.cpp:233-247, 154-224 when no timer is due, the link is up and the session is
\* connected: the iteration ends and the next one reaches mqttClient.loop() again
QuietIteration ==
  /\ pc = "sample"
  /\ cbpc = "idle"
  /\ link /\ session
  /\ pc' = "pump"
  /\ obs' = [obs EXCEPT !.it = NoIt]
  /\ UNCHANGED <<ret, clock, iter, link, session, subscribed, attempts, sensorAvailable,
                 sensorData, timerVars, relayVars, cbVars>>

NextDispatch ==
  \/ PumpAny
  \/ CallbackParse
  \/ CallbackStep
  \/ RelayStep
  \/ CallbackEnd
  \/ CallbackReturn
  \/ QuietIteration

SpecDispatch == InitDispatch /\ [][NextDispatch]_vars

(***************************************************************************)
(* Properties of the dispatcher.                                           *)
(***************************************************************************)
\* what the payload text says, independently of the parse
Has(m, k) == \E i \in DOMAIN m.members : m.members[i][1] = k
Val(m, k) == \E i \in DOMAIN m.members : m.members[i] = <<k, TRUE>>

\* the directives present in m applied to ActuatorState s in the order set-ch1, set-ch2,
\* toggle-ch1, toggle-ch2, all-off, all-on
Expected(m, s) ==
  LET s1 == IF Has(m, "relay_ch1") THEN <<Val(m, "relay_ch1"), s[2]>> ELSE s
      s2 == IF Has(m, "relay_ch2") THEN <<s1[1], Val(m, "relay_ch2")>> ELSE s1
      s3 == IF Has(m, "toggle_ch1") THEN <<~s2[1], s2[2]>> ELSE s2
      s4 == IF Has(m, "toggle_ch2") THEN <<s3[1], ~s3[2]>> ELSE s3
      s5 == IF Has(m, "all_off") THEN <<FALSE, FALSE>> ELSE s4
      s6 == IF Has(m, "all_on") THEN <<TRUE, TRUE>> ELSE s5
  IN  s6

ActuatorState == <<ch1_state, ch2_state>>

Dispatched == cbpc = "return" /\ msg.wellFormed

\* C1: when mqttCallback has handled a well-formed payload, ActuatorState is the prior
\* state with the directives present in the payload applied in the order set-ch1,
\* set-ch2, toggle-ch1, toggle-ch2, all-off, all-on, whatever the order of the members
\* in the payload and whatever the values of the toggle, all-off and all-on members.
C1_FixedDirectiveOrder ==
  Dispatched => ActuatorState = Expected(msg, obs.pre)

\* a payload that spells toggle-ch2, toggle-ch1, set ch1 = false in that order, handled
\* from ON/ON: in payload order it would end OFF/OFF, in the fixed order it ends ON/OFF
C1_Witness ==
  /\ Dispatched
  /\ msg.members = <<<<"toggle_ch2", FALSE>>, <<"toggle_ch1", FALSE>>, <<"relay_ch1", FALSE>>>>
  /\ obs.pre = <<TRUE, TRUE>>
  /\ ActuatorState = <<TRUE, FALSE>>

\* C2: a payload with set ch1 = true and toggle ch1, and neither all-off nor all-on,
\* leaves channel 1 OFF whatever channel 1 was before.
C2_SetThenToggleIsOff ==
  ( /\ Dispatched
    /\ Has(msg, "relay_ch1") /\ Val(msg, "relay_ch1")
    /\ Has(msg, "toggle_ch1")
    /\ ~Has(msg, "all_off") /\ ~Has(msg, "all_on") )
  => (ch1_state = FALSE /\ pin[RELAY_CH1_PIN] = RELAY_OFF)

\* the case where toggling the prior value would have given ON
C2_Witness ==
  /\ Dispatched
  /\ msg.members = <<<<"toggle_ch1", TRUE>>, <<"relay_ch1", TRUE>>>>
  /\ obs.pre[1] = FALSE
  /\ ch1_state = FALSE

\* C3: a well-formed payload with the all-on key leaves both channels ON, whatever the
\* prior state, the other members and the order of the members.
C3_AllOnWins ==
  (Dispatched /\ Has(msg, "all_on"))
  => /\ ch1_state /\ ch2_state
     /\ pin[RELAY_CH1_PIN] = RELAY_ON /\ pin[RELAY_CH2_PIN] = RELAY_ON

\* all-on spelled before set ch1 = false and all-off
C3_Witness ==
  /\ Dispatched
  /\ msg.members = <<<<"all_on", FALSE>>, <<"relay_ch1", FALSE>>, <<"all_off", TRUE>>>>
  /\ ch1_state /\ ch2_state

\* C4: while and after mqttCallback handles a payload that fails to parse, no
\* RelayControl method is called, no pin is written, ActuatorState is unchanged and no
\* acknowledgment is published.
C4_MalformedIsDropped ==
  (cbpc # "idle" /\ ~msg.wellFormed)
  => /\ obs.pinLog = <<>>
     /\ obs.acks = 0
     /\ ops = <<>> /\ call = "none"
     /\ ActuatorState = obs.pre

\* a truncated payload whose text spells the all-on key, handled from OFF/OFF
C4_Witness ==
  /\ cbpc = "return"
  /\ ~msg.wellFormed
  /\ Has(msg, "all_on")
  /\ ActuatorState = <<FALSE, FALSE>>

\* C5: mqttCallback publishes exactly one acknowledgment, on the status topic, for every
\* well-formed payload; a payload with no recognised key leaves ActuatorState unchanged
\* and is acknowledged all the same.
C5_ExactlyOneAck ==
  /\ obs.acks <= 1
  /\ Dispatched => (obs.acks = 1 /\ obs.ack.topic = "status" /\ obs.ack.status = "ok")
  /\ (Dispatched /\ \A k \in CommandKeys : ~Has(msg, k))
       => (ActuatorState = obs.pre /\ obs.pinLog = <<>>)

\* a payload whose only member is an unrecognised key, acknowledged with ch1 still ON
C5_Witness ==
  /\ Dispatched
  /\ msg.members = <<<<"led", TRUE>>>>
  /\ obs.acks = 1
  /\ obs.ack.relay_ch1 /\ ch1_state

\* C6: once the acknowledgment of a payload is published, every directive check of
\* that payload has run and no RelayControl statement follows it: the values it carries
\* are ActuatorState after the last mutation.
C6_AckAfterMutation ==
  obs.acks > 0
  => /\ obs.ack.relay_ch1 = ch1_state
     /\ obs.ack.relay_ch2 = ch2_state
     /\ ops = <<>>
     /\ obs.ackWrites = Len(obs.pinLog)
     /\ <<obs.ack.relay_ch1, obs.ack.relay_ch2>> = Expected(msg, obs.pre)

\* an acknowledgment that carries a value the payload has just changed
C6_Witness ==
  /\ obs.acks = 1
  /\ obs.pre = <<FALSE, TRUE>>
  /\ obs.ack.relay_ch1 /\ ~obs.ack.relay_ch2
  /\ Len(obs.pinLog) = 2

OnePerPin == [p \in {RELAY_CH1_PIN, RELAY_CH2_PIN} |-> 1]

\* C10: when allOff() has run twice with no other mutator call in between, both flags
\* are false, both pins are LOW, and each of the two calls has written OFF once to each
\* pin, also the call that found the channels already off.
C10_AllOffTwice ==
  (Len(obs.offRun) = 2 /\ ops = <<>>)
  => /\ ActuatorState = <<FALSE, FALSE>>
     /\ pin[RELAY_CH1_PIN] = RELAY_OFF /\ pin[RELAY_CH2_PIN] = RELAY_OFF
     /\ obs.offRun = <<OnePerPin, OnePerPin>>

\* the second of two successive allOff() calls, entered with both channels already off
C10_Witness ==
  /\ Len(obs.offRun) = 2
  /\ cbpc = "return"
  /\ obs.pre = <<FALSE, FALSE>>
  /\ obs.pinLog = <<<<RELAY_CH1_PIN, RELAY_OFF>>, <<RELAY_CH2_PIN, RELAY_OFF>>>>

(***************************************************************************)
(* Timing (main.cpp:22-25, 149-152, 189).                                  *)
(***************************************************************************)
SENSOR_READ_INTERVAL == 100
MQTT_PUBLISH_INTERVAL == 1000
WIFI_CHECK_INTERVAL == 10000
STATUS_PRINT_INTERVAL == 10000
MQTT_RECONNECT_INTERVAL == 10000
\* delay(10) at the end of loop()
LoopDelay == 10
\* a poll loop that gives up after twice as many passes
maxAttempts_twice == 2 * 30

\* connectToWiFi: maxAttempts
maxAttempts == 30
\* reconnectMQTT: attempts < 5
MqttAttempts == 5

\* the time one loop() iteration takes: the delay(10) alone, or a stall
Delays == {LoopDelay, StallMillis}

\* the values an unsigned long holds
Word == 2 ^ WordBits

\* millis() at t ms after boot: the counter truncated to an unsigned long
Millis(t) == t % Word

\* a difference of two counter values taken as a signed number
Elapsed_signed(now, last) == Millis(now) - Millis(last)

\* now - last on unsigned long: the difference of the two counter values modulo 2^w.
\* The timestamps of the model hold times since boot; the program sees their counter
\* values only, here.
Elapsed(now, last) == (Millis(now) - Millis(last)) % Word

\* a trigger test that passes on every evaluation
Due_always(now, last, interval) == Elapsed(now, last) >= 0

\* the trigger test of every timed concern
Due(now, last, interval) == Elapsed(now, last) >= interval

\* a timer re-armed one interval after its previous deadline
Rearm_backlog(last, now, interval) == last + interval

\* last = now: the value a concern's timestamp takes when it triggers
Rearm(last, now, interval) == now

(***************************************************************************)
(* The environment: the access point and the broker.                       *)
(***************************************************************************)
Polling == pc = "wifi_poll"

\* the positions whose next statement reads WiFi.status() or mqttClient.connected():
\* a change of the link or of the session shows to the program only there
Observed ==
  pc \in {"wifi_poll", "wifi_verify", "mqtt_begin", "mqtt_try", "setup_sub", "loop_top",
          "session", "mqtt_repaired", "pump", "publish", "publish_status"}

\* the link associates (WiFi.begin or auto-reconnect)
LinkUp ==
  /\ ~link
  /\ Observed
  /\ Polling => attempts <= MaxLinkUpPoll
  /\ link' = TRUE
  /\ UNCHANGED <<pc, ret, clock, iter, session, subscribed, attempts, sensorAvailable,
                 sensorData, timerVars, relayVars, cbVars, obs>>

\* the link is lost
LinkDown ==
  /\ link
  /\ Observed
  /\ obs.faults < MaxFaults
  /\ link' = FALSE
  /\ obs' = [obs EXCEPT !.faults = @ + 1]
  /\ UNCHANGED <<pc, ret, clock, iter, session, subscribed, attempts, sensorAvailable,
                 sensorData, timerVars, relayVars, cbVars>>

\* the broker or the network closes the session's connection
SessionDrop ==
  /\ session
  /\ Observed
  /\ obs.faults < MaxFaults
  /\ session' = FALSE
  /\ subscribed' = FALSE
  /\ obs' = [obs EXCEPT !.conn = NoConn, !.faults = @ + 1]
  /\ UNCHANGED <<pc, ret, clock, iter, link, attempts, sensorAvailable,
                 sensorData, timerVars, relayVars, cbVars>>

(***************************************************************************)
(* setup() (main.cpp:51-145).                                              *)
(***************************************************************************)
Init ==
  /\ pc = "setup"
  /\ ret = "none"
  /\ clock = 0
  /\ iter = 0
  /\ link = FALSE
  /\ session = FALSE
  /\ subscribed = FALSE
  /\ attempts = 0
  /\ sensorAvailable = FALSE
  /\ sensorData = [current |-> 0, voltage |-> 0, power |-> 0, timestamp |-> 0]
  /\ currentMillis = 0
  /\ lastWiFiCheck = 0
  /\ lastStatusPrint = 0
  /\ lastMqttReconnectAttempt = 0
  /\ lastSensorRead = 0
  /\ lastMqttPublish = 0
  /\ ch1_state = FALSE
  /\ ch2_state = FALSE
  /\ pin = [p \in {RELAY_CH1_PIN, RELAY_CH2_PIN} |-> "UNSET"]
  /\ call = "none"
  /\ ops = <<>>
  /\ cbpc = "idle"
  /\ msg = NoMsg
  /\ doc = NoDoc
  /\ di = 1
  /\ obs = ObsInit

\* main.cpp:51-81: the serial start-up delays and the probe of the INA219
SetupSensor ==
  /\ pc = "setup"
  /\ clock' = clock + BootMillis
  /\ sensorAvailable' \in BOOLEAN
  /\ pc' = "setup_relay"
  /\ UNCHANGED <<ret, iter, link, session, subscribed, attempts, sensorData, timerVars,
                 relayVars, cbVars, obs>>

\* main.cpp:84-87: relayControl.begin(), then connectToWiFi() is called
SetupRelay ==
  /\ pc = "setup_relay"
  /\ ops' = begin
  /\ call' = "begin"
  /\ obs' = [obs EXCEPT !.offRun = OffRunCall("begin")]
  /\ pc' = "wifi_begin"
  /\ ret' = "setup_mqtt"
  /\ UNCHANGED <<clock, iter, link, session, subscribed, attempts, sensorAvailable,
                 sensorData, timerVars, ch1_state, ch2_state, pin, cbVars>>

\* main.cpp:90, mqtt_client.h:12-16: setupMQTT() calls reconnectMQTT()
SetupMqtt ==
  /\ pc = "setup_mqtt"
  /\ pc' = "mqtt_begin"
  /\ ret' = "setup_sub"
  /\ UNCHANGED <<clock, iter, link, session, subscribed, attempts, sensorAvailable,
                 sensorData, timerVars, relayVars, cbVars, obs>>

\* main.cpp:92-117: a one second delay, then the subscription when the session is up;
\* nothing is published here
SetupSubscribe ==
  /\ pc = "setup_sub"
  /\ clock' = clock + 1000
  /\ IF session
     THEN /\ subscribed' = TRUE
          /\ obs' = [obs EXCEPT !.conn.subs = IF obs.conn.open THEN UpTo2(@) ELSE @,
                                !.run = NoRun]
     ELSE /\ obs' = [obs EXCEPT !.run = NoRun]
          /\ UNCHANGED subscribed
  /\ pc' = "loop_top"
  /\ UNCHANGED <<ret, iter, link, session, attempts, sensorAvailable, sensorData,
                 timerVars, relayVars, cbVars>>

(***************************************************************************)
(* connectToWiFi() (wifi_config.h:14-149).                                 *)
(***************************************************************************)
\* wifi_config.h:14-85: scan, WiFi.disconnect(true), WiFi.begin()
WiFiBegin ==
  /\ pc = "wifi_begin"
  /\ ops = <<>>
  /\ link' = FALSE
  /\ clock' = clock + 100 + 100 + 500
  /\ attempts' = 0
  /\ pc' = "wifi_poll"
  /\ obs' = [obs EXCEPT !.run = NoRun]
  /\ UNCHANGED <<ret, iter, session, subscribed, sensorAvailable, sensorData, timerVars,
                 relayVars, cbVars>>

\* wifi_config.h:87-99: one evaluation of the while condition, and its body
WiFiPoll ==
  /\ pc = "wifi_poll"
  /\ IF ~link /\ attempts < maxAttempts
     THEN /\ clock' = clock + 500
          /\ attempts' = attempts + 1
          /\ obs' = [obs EXCEPT !.run.polls = @ + 1]
          /\ pc' = pc
     ELSE /\ pc' = "wifi_verify"
          /\ UNCHANGED <<clock, attempts, obs>>
  /\ UNCHANGED <<ret, iter, link, session, subscribed, sensorAvailable, sensorData,
                 timerVars, relayVars, cbVars>>

\* a connectToWiFi() that treats a failed association as fatal and never returns
WiFiVerify_halt ==
  /\ pc = "wifi_verify"
  /\ clock' = IF link THEN clock + 2000 ELSE clock
  /\ pc' = IF link THEN ret ELSE "halt"
  /\ ret' = "none"
  /\ attempts' = 0
  /\ obs' = [obs EXCEPT !.failed.wifi = IF link THEN 0 ELSE UpTo2(@), !.run = NoRun]
  /\ UNCHANGED <<iter, link, session, subscribed, sensorAvailable, sensorData,
                 timerVars, relayVars, cbVars>>

\* wifi_config.h:102-149: the report, with a two second wait when connected
WiFiVerify ==
  /\ pc = "wifi_verify"
  /\ clock' = IF link THEN clock + 2000 ELSE clock
  /\ pc' = ret
  /\ ret' = "none"
  /\ attempts' = 0
  /\ obs' = [obs EXCEPT !.failed.wifi = IF link THEN 0 ELSE UpTo2(@), !.run = NoRun]
  /\ UNCHANGED <<iter, link, session, subscribed, sensorAvailable, sensorData,
                 timerVars, relayVars, cbVars>>

(***************************************************************************)
(* reconnectMQTT() (mqtt_client.h:19-83).                                  *)
(***************************************************************************)
\* a reconnectMQTT() that starts its attempts without looking at the link
MqttBegin_noLinkCheck ==
  /\ pc = "mqtt_begin"
  /\ attempts' = 0
  /\ pc' = "mqtt_try"
  /\ obs' = [obs EXCEPT !.run = [NoRun EXCEPT !.linkSeen = link]]
  /\ UNCHANGED <<ret, clock, iter, link, session, subscribed, sensorAvailable, sensorData,
                 timerVars, relayVars, cbVars>>

\* mqtt_client.h:19-37: no attempt without the link
MqttBegin ==
  /\ pc = "mqtt_begin"
  /\ IF ~link
     THEN /\ pc' = ret
          /\ ret' = "none"
          /\ UNCHANGED attempts
     ELSE /\ attempts' = 0
          /\ pc' = "mqtt_try"
          /\ UNCHANGED ret
  /\ obs' = [obs EXCEPT !.run = [NoRun EXCEPT !.linkSeen = link]]
  /\ UNCHANGED <<clock, iter, link, session, subscribed, sensorAvailable, sensorData,
                 timerVars, relayVars, cbVars>>

\* mqtt_client.h:38-82: one evaluation of the while condition, and its body
MqttTry ==
  /\ pc = "mqtt_try"
  /\ IF ~session /\ attempts < MqttAttempts
     THEN \/ /\ link
             /\ attempts < MaxAcceptTry
             /\ session' = TRUE
             /\ subscribed' = FALSE
             /\ obs' = [obs EXCEPT !.conn = [open |-> TRUE, boot |-> ret = "setup_sub",
                                              subs |-> 0, telem |-> 0],
                                   !.failed.mqtt = 0,
                                   !.run.connects = @ + 1,
                                   !.run.onSession = @ \/ session]
             /\ pc' = ret
             /\ ret' = "none"
             /\ attempts' = 0
             /\ UNCHANGED clock
          \/ /\ clock' = IF attempts < MqttAttempts - 1 THEN clock + 2000 ELSE clock
             /\ attempts' = attempts + 1
             /\ obs' = [obs EXCEPT !.run.connects = @ + 1,
                                   !.run.pauses = IF attempts < MqttAttempts - 1
                                                  THEN @ + 1 ELSE @,
                                   !.run.offline = @ \/ ~link,
                                   !.run.onSession = @ \/ session]
             /\ UNCHANGED <<pc, ret, session, subscribed>>
     ELSE /\ pc' = ret
          /\ ret' = "none"
          /\ attempts' = 0
          /\ obs' = [obs EXCEPT !.failed.mqtt = IF session THEN 0 ELSE UpTo2(@)]
          /\ UNCHANGED <<clock, session, subscribed>>
  /\ UNCHANGED <<iter, link, sensorAvailable, sensorData, timerVars, relayVars, cbVars>>

(***************************************************************************)
(* Sensor capture and the two publishers (main.cpp:250-336).               *)
(***************************************************************************)
\* what the INA219 may report, in A, V and W
SensorReadings == {[current |-> 2, voltage |-> 12, power |-> 24]}

\* a capture that reads the registers whether or not the sensor was detected
readSensor_unguarded(r) ==
  [current |-> r.current, voltage |-> r.voltage, power |-> r.power,
   timestamp |-> Millis(clock)]

\* readSensor(): sensorData after a capture, r being what the registers hold
readSensor(r) ==
  IF sensorAvailable
  THEN [current |-> r.current, voltage |-> r.voltage, power |-> r.power,
        timestamp |-> Millis(clock)]
  ELSE [current |-> 0, voltage |-> 0, power |-> 0, timestamp |-> Millis(clock)]

\* the link fields both publishers add (main.cpp:284-294, :318-328)
WiFiInfo ==
  IF link
  THEN [wifi_connected |-> TRUE, wifi_ssid |-> "WiFi.SSID()", wifi_rssi |-> "WiFi.RSSI()",
        wifi_ip |-> "WiFi.localIP()"]
  ELSE [wifi_connected |-> FALSE, wifi_ssid |-> "", wifi_rssi |-> "0", wifi_ip |-> ""]

\* the telemetry document of main.cpp:277-294
TelemetryMsg ==
  [topic |-> "sensor", timestamp |-> sensorData.timestamp,
   current |-> sensorData.current, voltage |-> sensorData.voltage,
   power |-> sensorData.power, wifi |-> WiFiInfo]

\* the status document of main.cpp:312-328
StatusMsg ==
  [topic |-> "status", timestamp |-> Millis(clock), relay_ch1 |-> getChannel1State,
   relay_ch2 |-> getChannel2State, wifi |-> WiFiInfo]

\* one call of a publisher: what it read and what it published
Published(fn, m) ==
  [fn |-> fn, link |-> link, session |-> session, msgs |-> IF session THEN <<m>> ELSE <<>>]

\* a telemetry publisher that does not test the session first
publishSensorData_unguarded(o) ==
  [o EXCEPT !.pubs = Append(@, [fn |-> "publishSensorData", link |-> link,
                                session |-> session, msgs |-> <<TelemetryMsg>>])]

\* publishSensorData(): obs after the call; nothing is sent without a session
publishSensorData(o) ==
  [o EXCEPT !.conn.telem = IF session /\ o.conn.open THEN UpTo2(@) ELSE @,
            !.pubs = Append(@, Published("publishSensorData", TelemetryMsg))]

\* publishRelayStatus(): obs after the call; nothing is sent without a session
publishRelayStatus(o) ==
  [o EXCEPT !.pubs = Append(@, Published("publishRelayStatus", StatusMsg))]

(***************************************************************************)
(* loop() (main.cpp:147-248).                                              *)
(***************************************************************************)
\* main.cpp:154-185: the clock is sampled and the link check runs when due
LoopTop ==
  /\ pc = "loop_top"
  /\ iter < MaxIter
  /\ currentMillis' = clock
  /\ obs' = [obs EXCEPT !.trig = 0]
  /\ IF Due(clock, lastWiFiCheck, WIFI_CHECK_INTERVAL)
     THEN IF link
          THEN /\ lastStatusPrint' =
                    IF Due(clock, lastStatusPrint, STATUS_PRINT_INTERVAL)
                    THEN Rearm(lastStatusPrint, clock, STATUS_PRINT_INTERVAL)
                    ELSE lastStatusPrint
               /\ lastWiFiCheck' = Rearm(lastWiFiCheck, clock, WIFI_CHECK_INTERVAL)
               /\ pc' = After("loop_top")
               /\ UNCHANGED ret
          ELSE /\ pc' = "wifi_begin"
               /\ ret' = "wifi_checked"
               /\ UNCHANGED <<lastStatusPrint, lastWiFiCheck>>
     ELSE /\ pc' = After("loop_top")
          /\ UNCHANGED <<ret, lastStatusPrint, lastWiFiCheck>>
  /\ UNCHANGED <<clock, iter, link, session, subscribed, attempts, sensorAvailable,
                 sensorData, lastMqttReconnectAttempt, lastSensorRead, lastMqttPublish,
                 relayVars, cbVars>>

\* main.cpp:184 after connectToWiFi() has returned
WiFiChecked ==
  /\ pc = "wifi_checked"
  /\ lastWiFiCheck' = Rearm(lastWiFiCheck, currentMillis, WIFI_CHECK_INTERVAL)
  /\ pc' = After("loop_top")
  /\ UNCHANGED <<ret, clock, iter, link, session, subscribed, attempts, sensorAvailable,
                 sensorData, currentMillis, lastStatusPrint, lastMqttReconnectAttempt,
                 lastSensorRead, lastMqttPublish, relayVars, cbVars, obs>>

\* what the session step reads
Seen(o) == [o EXCEPT !.it.checked = TRUE, !.it.link = link, !.it.session = session]

\* a session step that pumps a connected session without looking at the link
Session_ungated ==
  /\ pc = "session"
  /\ IF session
     THEN pc' = "pump" /\ UNCHANGED ret
     ELSE IF link /\ Due(currentMillis, lastMqttReconnectAttempt, MQTT_RECONNECT_INTERVAL)
          THEN pc' = "mqtt_begin" /\ ret' = "mqtt_repaired"
          ELSE pc' = After("session") /\ UNCHANGED ret
  /\ obs' = Seen(obs)
  /\ UNCHANGED <<session, subscribed>>
  /\ UNCHANGED <<clock, iter, link, attempts, sensorAvailable, sensorData, timerVars,
                 relayVars, cbVars>>

\* a session step that leaves a connected session alone when the link is down
Session_noDisconnect ==
  /\ pc = "session"
  /\ IF link
     THEN IF ~session
          THEN IF Due(currentMillis, lastMqttReconnectAttempt, MQTT_RECONNECT_INTERVAL)
               THEN pc' = "mqtt_begin" /\ ret' = "mqtt_repaired"
               ELSE pc' = After("session") /\ UNCHANGED ret
          ELSE pc' = "pump" /\ UNCHANGED ret
     ELSE pc' = After("session") /\ UNCHANGED ret
  /\ obs' = Seen(obs)
  /\ UNCHANGED <<session, subscribed>>
  /\ UNCHANGED <<clock, iter, link, attempts, sensorAvailable, sensorData, timerVars,
                 relayVars, cbVars>>

\* main.cpp:191-231: repair, pump or disconnect, by the link and session status
Session ==
  /\ pc = "session"
  /\ IF link
     THEN /\ IF ~session
             THEN IF Due(currentMillis, lastMqttReconnectAttempt, MQTT_RECONNECT_INTERVAL)
                  THEN pc' = "mqtt_begin" /\ ret' = "mqtt_repaired"
                  ELSE pc' = After("session") /\ UNCHANGED ret
             ELSE pc' = "pump" /\ UNCHANGED ret
          /\ obs' = Seen(obs)
          /\ UNCHANGED <<session, subscribed>>
     ELSE /\ session' = FALSE
          /\ subscribed' = IF session THEN FALSE ELSE subscribed
          /\ obs' = Seen(IF session THEN [obs EXCEPT !.conn = NoConn] ELSE obs)
          /\ pc' = After("session")
          /\ UNCHANGED ret
  /\ UNCHANGED <<clock, iter, link, attempts, sensorAvailable, sensorData, timerVars,
                 relayVars, cbVars>>

\* a repair that publishes its probe on the new session and does not subscribe again
MqttRepaired_noSub ==
  /\ pc = "mqtt_repaired"
  /\ lastMqttReconnectAttempt' =
       Rearm(lastMqttReconnectAttempt, currentMillis, MQTT_RECONNECT_INTERVAL)
  /\ obs' = IF session THEN publishSensorData([obs EXCEPT !.run = NoRun])
            ELSE [obs EXCEPT !.run = NoRun]
  /\ pc' = After("session")
  /\ UNCHANGED <<ret, clock, iter, link, session, subscribed, attempts, sensorAvailable,
                 sensorData, currentMillis, lastWiFiCheck, lastStatusPrint,
                 lastSensorRead, lastMqttPublish, relayVars, cbVars>>

\* main.cpp:204-221 after reconnectMQTT() has returned: on success the subscription and
\* one telemetry publish
MqttRepaired ==
  /\ pc = "mqtt_repaired"
  /\ lastMqttReconnectAttempt' =
       Rearm(lastMqttReconnectAttempt, currentMillis, MQTT_RECONNECT_INTERVAL)
  /\ IF session
     THEN /\ subscribed' = TRUE
          /\ obs' = publishSensorData(
                       [obs EXCEPT !.conn.subs = IF obs.conn.open THEN UpTo2(@) ELSE @,
                                   !.run = NoRun])
     ELSE /\ obs' = [obs EXCEPT !.run = NoRun]
          /\ UNCHANGED subscribed
  /\ pc' = After("session")
  /\ UNCHANGED <<ret, clock, iter, link, session, attempts, sensorAvailable, sensorData,
                 currentMillis, lastWiFiCheck, lastStatusPrint, lastSensorRead,
                 lastMqttPublish, relayVars, cbVars>>

\* a sensor step that probes the sensor again
Sample_reprobe ==
  /\ pc = "sample"
  /\ cbpc = "idle"
  /\ currentMillis' = clock
  /\ sensorAvailable' \in BOOLEAN
  /\ IF Due(clock, lastSensorRead, SENSOR_READ_INTERVAL)
     THEN /\ \E r \in SensorReadings : sensorData' = readSensor(r)
          /\ lastSensorRead' = Rearm(lastSensorRead, clock, SENSOR_READ_INTERVAL)
          /\ obs' = [obs EXCEPT !.captured = TRUE]
     ELSE UNCHANGED <<sensorData, lastSensorRead, obs>>
  /\ pc' = After("sample")
  /\ UNCHANGED <<ret, clock, iter, link, session, subscribed, attempts,
                 lastWiFiCheck, lastStatusPrint, lastMqttReconnectAttempt,
                 lastMqttPublish, relayVars, cbVars>>

\* main.cpp:233-238: the clock is sampled again and the sensor is read when due
Sample ==
  /\ pc = "sample"
  /\ cbpc = "idle"
  /\ currentMillis' = clock
  /\ IF Due(clock, lastSensorRead, SENSOR_READ_INTERVAL)
     THEN /\ \E r \in SensorReadings : sensorData' = readSensor(r)
          /\ lastSensorRead' = Rearm(lastSensorRead, clock, SENSOR_READ_INTERVAL)
          /\ obs' = [obs EXCEPT !.captured = TRUE]
     ELSE UNCHANGED <<sensorData, lastSensorRead, obs>>
  /\ pc' = After("sample")
  /\ UNCHANGED <<ret, clock, iter, link, session, subscribed, attempts, sensorAvailable,
                 lastWiFiCheck, lastStatusPrint, lastMqttReconnectAttempt,
                 lastMqttPublish, relayVars, cbVars>>

\* main.cpp:240-242: when the publish interval has elapsed, publishSensorData() runs
Publish ==
  /\ pc = "publish"
  /\ IF Due(currentMillis, lastMqttPublish, MQTT_PUBLISH_INTERVAL)
     THEN /\ obs' = [publishSensorData([obs EXCEPT !.pubs = <<>>])
                       EXCEPT !.conn = NoConn,
                              !.trig = UpTo2(@),
                              !.gap = IF obs.lastTrig = -1 THEN -1
                                      ELSE Elapsed(currentMillis, obs.lastTrig),
                              !.lastTrig = currentMillis]
          /\ pc' = "publish_status"
     ELSE /\ pc' = After("publish")
          /\ UNCHANGED obs
  /\ UNCHANGED <<ret, clock, iter, link, session, subscribed, attempts, sensorAvailable,
                 sensorData, timerVars, relayVars, cbVars>>

\* main.cpp:243-244: then publishRelayStatus() runs and the publish timer is re-armed
PublishStatus ==
  /\ pc = "publish_status"
  /\ obs' = publishRelayStatus(obs)
  /\ lastMqttPublish' = Rearm(lastMqttPublish, currentMillis, MQTT_PUBLISH_INTERVAL)
  /\ pc' = After("publish")
  /\ UNCHANGED <<ret, clock, iter, link, session, subscribed, attempts, sensorAvailable,
                 sensorData, currentMillis, lastWiFiCheck, lastStatusPrint,
                 lastMqttReconnectAttempt, lastSensorRead, relayVars, cbVars>>

\* main.cpp:247: delay(10); the iteration ends after LoopDelay or, once in a run, after
\* a stall
Yield ==
  /\ pc = "yield"
  /\ \E d \in Delays :
       /\ d = StallMillis => ~obs.stalled
       /\ clock' = clock + d
       /\ obs' = [obs EXCEPT !.stall = d, !.stalled = @ \/ d = StallMillis, !.gap = -1,
                             !.it = NoIt, !.pubs = <<>>]
  /\ iter' = iter + 1
  /\ pc' = "loop_top"
  /\ UNCHANGED <<ret, link, session, subscribed, attempts, sensorAvailable, sensorData,
                 timerVars, relayVars, cbVars>>

Next ==
  \/ SetupSensor
  \/ SetupRelay
  \/ SetupMqtt
  \/ SetupSubscribe
  \/ WiFiBegin
  \/ WiFiPoll
  \/ WiFiVerify
  \/ MqttBegin
  \/ MqttTry
  \/ LoopTop
  \/ WiFiChecked
  \/ Session
  \/ MqttRepaired
  \/ Pump
  \/ CallbackParse
  \/ CallbackStep
  \/ RelayStep
  \/ CallbackEnd
  \/ CallbackReturn
  \/ Sample
  \/ Publish
  \/ PublishStatus
  \/ Yield
  \/ LinkUp
  \/ LinkDown
  \/ SessionDrop

Spec == Init /\ [][Next]_vars

(***************************************************************************)
(* Properties of the loop.                                                 *)
(***************************************************************************)
\* the publish trigger of main.cpp:241 is about to fire
PublishDue ==
  pc = "publish" /\ Due(currentMillis, lastMqttPublish, MQTT_PUBLISH_INTERVAL)

\* C7: when the first scheduled publish trigger after a successful connect fires, and
\* the session has stayed connected since, exactly one subscribe to the command topic
\* and exactly one telemetry publish have happened since that connect.
C7_OneSubscribeOneProbe ==
  (PublishDue /\ obs.conn.open) => (obs.conn.subs = 1 /\ obs.conn.telem = 1)

\* the same for the connects made by loop() alone (main.cpp:203-216)
LoopRepairProbes ==
  (PublishDue /\ obs.conn.open /\ ~obs.conn.boot)
  => (obs.conn.subs = 1 /\ obs.conn.telem = 1)

\* a session repaired by loop() reaches its first scheduled publish trigger
LoopRepairReached ==
  PublishDue /\ obs.conn.open /\ ~obs.conn.boot /\ obs.conn.telem = 1

\* C8: an iteration fires the publish trigger at most once; the iteration that follows
\* a stall of 3.5 publish intervals fires it exactly once; and a trigger never fires
\* less than one publish interval of sampled clock time after the one before it.
C8_SkipDontBacklog ==
  /\ obs.trig <= 1
  /\ (pc = "yield" /\ obs.stall = StallMillis) => obs.trig = 1
  /\ obs.gap # -1 => obs.gap >= MQTT_PUBLISH_INTERVAL

\* the iteration after the stall has published once, 3.5 intervals or more after the
\* trigger before it
C8_Witness ==
  /\ pc = "yield"
  /\ obs.stall = StallMillis
  /\ obs.trig = 1
  /\ obs.gap >= StallMillis

\* C9 (every field): without a sensor every field of the Reading is zero after a capture.
C9_AllFieldsZero ==
  (~sensorAvailable /\ obs.captured)
  => sensorData = [current |-> 0, voltage |-> 0, power |-> 0, timestamp |-> 0]

\* C9 amended: without a sensor, current, voltage and power are zero after every
\* capture; the timestamp is the time of the capture, at or after the clock value
\* sampled for the sensor step.
C9_MeasurementsZero ==
  (~sensorAvailable /\ obs.captured)
  => /\ sensorData.current = 0
     /\ sensorData.voltage = 0
     /\ sensorData.power = 0
     /\ sensorData.timestamp >= lastSensorRead

\* a second or later capture without a sensor
C9_Witness ==
  /\ ~sensorAvailable
  /\ obs.captured
  /\ iter >= 1
  /\ pc = "publish"
  /\ sensorData.timestamp = clock
  /\ sensorData.current = 0

\* the in-memory flag of the channel on pin p
Flag(p) == IF p = RELAY_CH1_PIN THEN ch1_state ELSE ch2_state

\* the method in progress has written pin p and has still to update its flag to that level
WrittenNotYetFlagged(p) ==
  \E i \in DOMAIN ops :
    /\ ops[i].op = "assign" /\ ops[i].pin = p
    /\ Level(ops[i].state) = pin[p]
    /\ \A j \in 1..(i - 1) : ops[j].pin # p

\* C11: in begin() and in every mutator, when the next statement updates a channel's flag,
\* the pin of that channel already holds the level of the value about to be stored; and
\* a flag disagrees with its pin only while the pin has been written and the flag not
\* yet (or before begin(), when no pin is written and the flags hold the constructor's
\* false).
C11_WriteBeforeFlag ==
  /\ (ops # <<>> /\ Head(ops).op = "assign")
       => pin[Head(ops).pin] = Level(Head(ops).state)
  /\ \A p \in {RELAY_CH1_PIN, RELAY_CH2_PIN} :
       Level(Flag(p)) # pin[p]
       => \/ pin[p] = "UNSET" /\ ~Flag(p)
          \/ WrittenNotYetFlagged(p)

\* inside allOn(), called by a command: pin 2 is already HIGH, its flag still false
C11_Witness ==
  /\ call = "allOn"
  /\ cbpc = "run"
  /\ ops # <<>>
  /\ Head(ops) = Assign(RELAY_CH2_PIN, TRUE)
  /\ pin[RELAY_CH2_PIN] = RELAY_ON
  /\ ~ch2_state

\* the concern a position belongs to: 0 setup(), 1 link health, 2 session health (repair,
\* pump and command dispatch included), 3 sensor sampling, 4 publish, 5 the closing delay
Concern(p, r) ==
  CASE p \in {"setup", "setup_relay", "setup_mqtt", "setup_sub"} -> 0
    [] p \in {"wifi_begin", "wifi_poll", "wifi_verify"} -> IF r = "wifi_checked" THEN 1 ELSE 0
    [] p \in {"loop_top", "wifi_checked"} -> 1
    [] p \in {"mqtt_begin", "mqtt_try"} -> IF r = "mqtt_repaired" THEN 2 ELSE 0
    [] p \in {"session", "mqtt_repaired", "pump", "callback"} -> 2
    [] p = "sample" -> 3
    [] p \in {"publish", "publish_status"} -> 4
    [] p = "yield" -> 5

\* C12: every step of the program stays within its concern or moves to the next one in
\* the order link health, session health, sensor sampling, publish, delay, and from the
\* delay back to link health: no concern is skipped or run out of order, so the publish
\* step of an iteration comes after the session repair of that iteration.
C12_LoopOrder ==
  [][LET a == Concern(pc, ret)
         b == Concern(pc', ret')
     IN  \/ b = a
         \/ b = a + 1
         \/ a = 5 /\ b = 1]_vars

\* the end of an iteration that repaired the session, subscribed again, and then fired
\* the scheduled publish trigger
C12_Witness ==
  /\ pc = "yield"
  /\ session /\ subscribed
  /\ lastMqttReconnectAttempt = currentMillis
  /\ lastMqttPublish = currentMillis
  /\ obs.trig = 1

(***************************************************************************)
(* The loop without an end: the same program, every iteration counted as   *)
(* iteration 0, and time kept relative. The program reads the clock only   *)
(* through now - last compared with an interval of at most Horizon, so at  *)
(* the end of an iteration all times are shifted back together once the    *)
(* clock has passed Horizon, and a time more than Horizon in the past is   *)
(* kept as 0: every such comparison keeps its outcome.                     *)
(***************************************************************************)
Horizon ==
  CHOOSE h \in {SENSOR_READ_INTERVAL, MQTT_PUBLISH_INTERVAL, WIFI_CHECK_INTERVAL,
                STATUS_PRINT_INTERVAL, MQTT_RECONNECT_INTERVAL} :
    \A i \in {SENSOR_READ_INTERVAL, MQTT_PUBLISH_INTERVAL, WIFI_CHECK_INTERVAL,
              STATUS_PRINT_INTERVAL, MQTT_RECONNECT_INTERVAL} : i <= h

Rebase(t, shift) == IF t > shift THEN t - shift ELSE 0

\* the time one iteration takes here: the loop is explored at the pace of its stalls
LiveDelays == {StallMillis}

\* main.cpp:247: delay(10), the iteration having taken d in all
YieldLive ==
  /\ pc = "yield"
  /\ \E d \in LiveDelays :
       LET now == clock + d
           shift == IF now > Horizon THEN now - Horizon ELSE 0
       IN  /\ clock' = now - shift
           /\ currentMillis' = Rebase(currentMillis, shift)
           /\ lastWiFiCheck' = Rebase(lastWiFiCheck, shift)
           /\ lastStatusPrint' = Rebase(lastStatusPrint, shift)
           /\ lastMqttReconnectAttempt' = Rebase(lastMqttReconnectAttempt, shift)
           /\ lastSensorRead' = Rebase(lastSensorRead, shift)
           /\ lastMqttPublish' = Rebase(lastMqttPublish, shift)
           /\ sensorData' = [sensorData EXCEPT !.timestamp = Rebase(@, shift)]
           /\ obs' = [obs EXCEPT !.stall = d, !.gap = -1, !.it = NoIt, !.pubs = <<>>,
                                 !.lastTrig = IF @ = -1 THEN -1 ELSE Rebase(@, shift)]
  /\ pc' = "loop_top"
  /\ UNCHANGED <<ret, iter, link, session, subscribed, attempts, sensorAvailable,
                 relayVars, cbVars>>

\* the steps of the program
Program ==
  \/ SetupSensor
  \/ SetupRelay
  \/ SetupMqtt
  \/ SetupSubscribe
  \/ WiFiBegin
  \/ WiFiPoll
  \/ WiFiVerify
  \/ MqttBegin
  \/ MqttTry
  \/ LoopTop
  \/ WiFiChecked
  \/ Session
  \/ MqttRepaired
  \/ Pump
  \/ CallbackParse
  \/ CallbackStep
  \/ RelayStep
  \/ CallbackEnd
  \/ CallbackReturn
  \/ Sample
  \/ Publish
  \/ PublishStatus
  \/ YieldLive

NextLive ==
  \/ Program
  \/ LinkUp
  \/ LinkDown
  \/ SessionDrop

\* the single thread of the program always takes its next step; the access point and
\* the broker owe nothing
SpecLive == Init /\ [][NextLive]_vars /\ WF_vars(Program)

\* mqttClient.connect() is about to be called
ConnectCall == pc = "mqtt_try" /\ ~session /\ attempts < MqttAttempts

\* C13: the loop starts a new iteration again and again whatever the access point and
\* the broker do; if from some point on the link stays down, connectToWiFi() is entered
\* again and again; if from some point on the link stays up and the session stays
\* disconnected, mqttClient.connect() is called again and again.
C13_RetryForever ==
  /\ []<>(pc = "loop_top")
  /\ (<>[](~link)) => []<>(pc = "wifi_begin")
  /\ (<>[](link /\ ~session)) => []<>ConnectCall

\* loop() enters connectToWiFi() once more after two calls in a row have failed
C13_Witness ==
  /\ pc = "wifi_begin"
  /\ ret = "wifi_checked"
  /\ ~link
  /\ obs.failed.wifi = 2

\* reconnectMQTT() is called by loop() once more after two calls in a row have failed
RepairRetried ==
  /\ ConnectCall
  /\ ret = "mqtt_repaired"
  /\ link
  /\ obs.failed.mqtt = 2

\* C14: a connectToWiFi() call makes at most 30 passes of its poll loop (a 500 ms wait and
\* a new test of the link status) and a reconnectMQTT() call makes at most 5 calls of
\* mqttClient.connect() and at most 4 pauses; the local counter of each call equals the
\* passes / connect calls of that call alone, so it starts from zero on every call; and
\* when reconnectMQTT() returns, its pauses are one fewer than its connect calls: a pause
\* follows a failed attempt only when another attempt is to come.
C14_BoundedRepair ==
  /\ obs.run.polls <= 30
  /\ obs.run.connects <= 5
  /\ obs.run.pauses <= 4
  /\ pc \in {"wifi_poll", "wifi_verify"} => attempts = obs.run.polls
  /\ pc = "mqtt_try"
       => /\ attempts = obs.run.connects
          /\ obs.run.pauses = IF obs.run.connects < 4 THEN obs.run.connects ELSE 4
  /\ pc \in {"mqtt_repaired", "setup_sub"}
       => \/ obs.run.connects = 0
          \/ obs.run.pauses = obs.run.connects - 1

\* a connectToWiFi() call that follows a failed one and has itself used all 30 passes
C14_Witness ==
  /\ pc = "wifi_verify"
  /\ ~link
  /\ obs.run.polls = 30
  /\ obs.failed.wifi >= 1

\* a reconnectMQTT() call that follows a failed one and returns after 5 refused attempts
RepairGaveUp ==
  /\ pc = "mqtt_repaired"
  /\ ~session
  /\ obs.run.connects = 5
  /\ obs.run.pauses = 4
  /\ obs.failed.mqtt = 2

\* the session step of the current iteration is over
SessionStepDone == obs.it.checked /\ pc \in {"sample", "publish", "yield"}

\* C15 (session alone): mqttClient.loop() has run once in an iteration whose session step
\* found the session connected and not at all in the others, and has handed at most one
\* payload to mqttCallback.
C15_PumpIffSession ==
  /\ SessionStepDone => (obs.it.pumps = IF obs.it.session THEN 1 ELSE 0)
  /\ obs.it.dispatched <= obs.it.pumps

\* C15 amended: mqttClient.loop() has run once in an iteration whose session step found
\* the link connected and the session connected, and not at all in the others (link down:
\* the session is disconnected instead; session down: repair or nothing); a call hands
\* at most one payload to mqttCallback, so at most one command is applied per iteration.
C15_PumpIffLinkAndSession ==
  /\ SessionStepDone
       => (obs.it.pumps = IF obs.it.link /\ obs.it.session THEN 1 ELSE 0)
  /\ obs.it.pumps <= 1
  /\ obs.it.dispatched <= obs.it.pumps

\* an iteration whose pump handed one command to mqttCallback, which has applied it
C15_Witness ==
  /\ SessionStepDone
  /\ obs.it.link /\ obs.it.session
  /\ obs.it.pumps = 1
  /\ obs.it.dispatched = 1
  /\ ActuatorState = <<TRUE, TRUE>>

\* an iteration that found the session connected with the link down: disconnected, not
\* pumped
NotPumpedLinkDown ==
  /\ SessionStepDone
  /\ ~obs.it.link /\ obs.it.session
  /\ obs.it.pumps = 0
  /\ ~session

\* the publish trigger of the current iteration has fired and both publishers have run
TriggerDone == pc = "yield" /\ obs.trig = 1

\* message m carries the link fields of a publisher that read the link status as up
LinkTagged(m, up) ==
  /\ m.wifi.wifi_connected = up
  /\ up => (m.wifi.wifi_ssid # "" /\ m.wifi.wifi_ip # "")
  /\ ~up => (m.wifi.wifi_ssid = "" /\ m.wifi.wifi_ip = "")

\* m is a telemetry message that carries the latest Reading
IsTelemetry(m) ==
  /\ m.topic = "sensor"
  /\ m.timestamp = sensorData.timestamp
  /\ m.current = sensorData.current
  /\ m.voltage = sensorData.voltage
  /\ m.power = sensorData.power

\* m is a status message that carries the latest ActuatorState
IsStatus(m) ==
  /\ m.topic = "status"
  /\ m.relay_ch1 = ch1_state
  /\ m.relay_ch2 = ch2_state

\* C16 (every trigger): a publish trigger has published two messages, the telemetry
\* message with the latest Reading first and the status message with the latest
\* ActuatorState second, each tagged with the link status its publisher read.
C16_EveryTriggerPublishes ==
  TriggerDone
  => /\ Len(obs.pubs) = 2
     /\ \A i \in 1..2 : Len(obs.pubs[i].msgs) = 1
                        /\ LinkTagged(obs.pubs[i].msgs[1], obs.pubs[i].link)
     /\ IsTelemetry(obs.pubs[1].msgs[1])
     /\ IsStatus(obs.pubs[2].msgs[1])

\* C16 amended: a publish trigger has called publishSensorData() and then
\* publishRelayStatus(); each of the two has published one message when it found the
\* session connected and nothing when it did not; a published message carries the latest
\* Reading (telemetry) or the latest ActuatorState (status) and the link status its
\* publisher read, with SSID and address blank when the link was not connected.
C16_PublishersGuarded ==
  TriggerDone
  => /\ Len(obs.pubs) = 2
     /\ obs.pubs[1].fn = "publishSensorData"
     /\ obs.pubs[2].fn = "publishRelayStatus"
     /\ \A i \in 1..2 :
          /\ Len(obs.pubs[i].msgs) = IF obs.pubs[i].session THEN 1 ELSE 0
          /\ obs.pubs[i].msgs # <<>>
               => LinkTagged(obs.pubs[i].msgs[1], obs.pubs[i].link)
     /\ obs.pubs[1].msgs # <<>> => IsTelemetry(obs.pubs[1].msgs[1])
     /\ obs.pubs[2].msgs # <<>> => IsStatus(obs.pubs[2].msgs[1])

\* a trigger whose telemetry was published with the link up and whose status was
\* published after the link was lost, the session still connected
C16_Witness ==
  /\ TriggerDone
  /\ Len(obs.pubs) = 2
  /\ obs.pubs[1].msgs # <<>> /\ obs.pubs[1].msgs[1].wifi.wifi_connected
  /\ obs.pubs[2].msgs # <<>> /\ obs.pubs[2].msgs[1].wifi.wifi_ssid = ""
  /\ obs.captured

\* a trigger that fired without a session and published nothing
NothingPublished ==
  /\ TriggerDone
  /\ Len(obs.pubs) = 2
  /\ obs.pubs[1].msgs = <<>>
  /\ obs.pubs[2].msgs = <<>>
  /\ lastMqttPublish = currentMillis

\* the four timestamps of the timed concerns
Stamps == <<lastWiFiCheck, lastMqttReconnectAttempt, lastSensorRead, lastMqttPublish>>

\* C17: each timed concern is triggered by its step exactly when the clock value sampled
\* for that step minus the concern's timestamp is at least its interval (for the session
\* repair: when, besides, the link is up and the session down); a triggered concern sets
\* its timestamp to that sampled value; a timestamp changes only in its own concern's
\* step, one at a time, and never by less than its interval.
C17_TimedConcerns ==
  [][/\ (pc = "loop_top" /\ pc' # pc)
          => IF currentMillis' - lastWiFiCheck >= 10000
             THEN \/ lastWiFiCheck' = currentMillis'
                  \/ pc' = "wifi_begin" /\ ret' = "wifi_checked"
             ELSE lastWiFiCheck' = lastWiFiCheck /\ pc' = "session"
     /\ (pc = "wifi_checked" /\ pc' # pc) => lastWiFiCheck' = currentMillis
     /\ (pc = "session" /\ pc' # pc)
          => (pc' = "mqtt_begin"
                <=> (link /\ ~session /\ currentMillis - lastMqttReconnectAttempt >= 10000))
     /\ (pc = "mqtt_repaired" /\ pc' # pc) => lastMqttReconnectAttempt' = currentMillis
     /\ (pc = "sample" /\ pc' # pc)
          => lastSensorRead' = IF currentMillis' - lastSensorRead >= 100
                               THEN currentMillis' ELSE lastSensorRead
     /\ (pc = "publish" /\ pc' # pc)
          => (pc' = "publish_status" <=> currentMillis - lastMqttPublish >= 1000)
     /\ (pc = "publish_status" /\ pc' # pc) => lastMqttPublish' = currentMillis
     /\ lastWiFiCheck' # lastWiFiCheck
          => pc \in {"loop_top", "wifi_checked"} /\ lastWiFiCheck' - lastWiFiCheck >= 10000
     /\ lastMqttReconnectAttempt' # lastMqttReconnectAttempt
          => /\ pc = "mqtt_repaired"
             /\ lastMqttReconnectAttempt' - lastMqttReconnectAttempt >= 10000
     /\ lastSensorRead' # lastSensorRead
          => pc = "sample" /\ lastSensorRead' - lastSensorRead >= 100
     /\ lastMqttPublish' # lastMqttPublish
          => pc = "publish_status" /\ lastMqttPublish' - lastMqttPublish >= 1000
     /\ Cardinality({i \in 1..4 : Stamps'[i] # Stamps[i]}) <= 1]_vars

\* after a stall the sensor concern has triggered a second time and the publish concern,
\* due as well, has not yet: its timestamp still holds the time of its previous trigger
C17_Witness ==
  /\ pc = "publish"
  /\ iter >= 1
  /\ lastSensorRead = currentMillis
  /\ lastMqttPublish > 0
  /\ currentMillis - lastMqttPublish >= StallMillis
  /\ lastWiFiCheck < lastMqttPublish

\* C18: whenever mqttClient.loop() is about to run on a connected session, the command
\* topic has been subscribed since that session's connect, be it the connect of setup()
\* or a repair of loop().
C18_SubscribedBeforePump ==
  (pc = "pump" /\ session) => subscribed

\* the pump about to run on a session that a repair of loop() connected and subscribed
C18_Witness ==
  /\ pc = "pump"
  /\ session /\ subscribed
  /\ lastMqttReconnectAttempt > 0
  /\ iter >= 1

\* the pump about to run, in the first iteration, on the session connected by setup()
BootSessionPumped ==
  /\ pc = "pump"
  /\ session /\ subscribed
  /\ iter = 0
  /\ obs.conn.open /\ obs.conn.boot /\ obs.conn.subs = 1

\* C19 (every connect call): no call of mqttClient.connect() has been made while the
\* link was down or the session connected.
C19_ConnectOnlyWithLink ==
  obs.run.connects > 0 => (~obs.run.offline /\ ~obs.run.onSession)

\* C19 amended: loop() calls reconnectMQTT() only after its session step has read the
\* link as connected and the session as not connected; reconnectMQTT(), called by
\* loop() or by setupMQTT(), tries to connect only after it has read the link as
\* connected on entry; and no call of mqttClient.connect() is made while the session
\* is connected.
C19_RepairGatedOnEntry ==
  /\ (pc \in {"mqtt_begin", "mqtt_try"} /\ ret = "mqtt_repaired")
       => (obs.it.checked /\ obs.it.link /\ ~obs.it.session)
  /\ pc = "mqtt_try" => obs.run.linkSeen
  /\ obs.run.connects > 0 => (obs.run.linkSeen /\ ~obs.run.onSession)

\* a reconnectMQTT() call of loop() that read the link as connected, lost it, and has
\* made a later connect attempt all the same
C19_Witness ==
  /\ pc = "mqtt_try"
  /\ ret = "mqtt_repaired"
  /\ obs.run.linkSeen
  /\ obs.run.connects >= 2
  /\ obs.run.offline
  /\ ~link

\* both flags false and both outputs LOW
AllOff ==
  /\ ActuatorState = <<FALSE, FALSE>>
  /\ pin = [p \in {RELAY_CH1_PIN, RELAY_CH2_PIN} |-> RELAY_OFF]

\* C20: once relayControl.begin() has run, and as long as no command has been
\* dispatched, both flags are false and both outputs LOW; begin() runs in setup() only;
\* and after it a flag or an output changes only in a step of mqttCallback: no step of
\* the link check, of connectToWiFi(), of reconnectMQTT(), of the subscription, of the
\* sensor sampling or of the two publishers changes any of them.
C20_OnlyDispatchMutates ==
  /\ []((Concern(pc, ret) >= 1 /\ obs.cmds = 0) => AllOff)
  /\ [](call = "begin" => Concern(pc, ret) = 0)
  /\ [][(ActuatorState' # ActuatorState \/ pin' # pin)
          => (call = "begin" \/ (cbpc = "run" /\ pc = "callback"))]_vars

\* the relays a command switched on are still on at the end of a later iteration that
\* repaired the session, subscribed again, sampled the sensor and published
C20_Witness ==
  /\ pc = "yield"
  /\ iter >= 1
  /\ ActuatorState = <<TRUE, TRUE>>
  /\ pin = [p \in {RELAY_CH1_PIN, RELAY_CH2_PIN} |-> RELAY_ON]
  /\ session /\ subscribed
  /\ lastMqttReconnectAttempt = currentMillis
  /\ lastSensorRead = currentMillis
  /\ obs.trig = 1

(***************************************************************************)
(* Sensor availability (main.cpp:69-81, :250-269).                         *)
(***************************************************************************)
\* C21: sensorAvailable is written by the probe in setup() and by no later step; with
\* the sensor absent every capture leaves current, voltage and power at zero; and
\* with the sensor absent the loop still starts iteration after iteration, the publish
\* trigger still fires again and again, connectToWiFi() is still entered again and
\* again while the link stays down, and mqttClient.connect() is still called again and
\* again while the link stays up and the session stays disconnected.
C21_SensorDecidedAtBoot ==
  /\ [][pc # "setup" => sensorAvailable' = sensorAvailable]_vars
  /\ []((~sensorAvailable /\ obs.captured)
          => (sensorData.current = 0 /\ sensorData.voltage = 0 /\ sensorData.power = 0))
  /\ (<>[](~sensorAvailable)) => ([]<>(pc = "loop_top") /\ []<>(pc = "publish_status"))
  /\ (<>[](~sensorAvailable /\ ~link)) => []<>(pc = "wifi_begin")
  /\ (<>[](~sensorAvailable /\ link /\ ~session)) => []<>ConnectCall

\* without a sensor, after zeroed captures, the loop starts a repair of the link
C21_Witness ==
  /\ ~sensorAvailable
  /\ obs.captured
  /\ sensorData.current = 0
  /\ sensorData.timestamp > 0
  /\ pc = "wifi_begin"
  /\ ret = "wifi_checked"

(***************************************************************************)
(* Flags and pins at the end of a call (relay_control.h:38-88).            *)
(***************************************************************************)
\* begin() has been called
Began == pc \notin {"setup", "setup_relay"}

\* no setChannel1/2 call is half-way: the method in progress, if any, is about to
\* enter its next setChannel call, and begin() has assigned both flags
CallEnded == ops = <<>> \/ (call # "begin" /\ Head(ops).op = "digitalWrite")

\* C22: once begin() has returned, at the end of every mutator call (and so after any
\* sequence of commands) the flag of each channel equals the level last written to its
\* pin; and between two dispatches no RelayControl statement is left to run.
C22_FlagIsLastWrite ==
  /\ (Began /\ CallEnded)
       => \A p \in {RELAY_CH1_PIN, RELAY_CH2_PIN} : pin[p] = Level(Flag(p))
  /\ (Began /\ cbpc = "idle" /\ call # "begin") => (ops = <<>> /\ call = "none")

\* a command that called all six mutators has ended with both channels ON by writes
C22_Witness ==
  /\ cbpc = "return"
  /\ msg.wellFormed
  /\ ops = <<>>
  /\ Len(obs.pinLog) = 8
  /\ ch1_state /\ ch2_state
  /\ pin[RELAY_CH1_PIN] = RELAY_ON /\ pin[RELAY_CH2_PIN] = RELAY_ON

(***************************************************************************)
(* The session step with the link down (main.cpp:226-230).                 *)
(***************************************************************************)
\* the session step of the current iteration has read the link as not connected
SawLinkDown == obs.it.checked /\ ~obs.it.link

\* C23: in an iteration whose session step read the link as not connected, the rest of
\* the iteration is past the session step with the session disconnected, mqttClient.loop()
\* not called, reconnectMQTT() not entered and no command handed to mqttCallback; so once
\* the session step of an iteration is over, a connected session means that step read
\* the link as connected.
C23_NoSessionWithoutLink ==
  /\ SawLinkDown
       => /\ pc \in {"sample", "publish", "publish_status", "yield"}
          /\ ~session
          /\ cbpc = "idle"
          /\ obs.it.pumps = 0
          /\ obs.it.dispatched = 0
          /\ obs.run.connects = 0
  /\ (obs.it.checked /\ session) => obs.it.link

\* the session step found the session connected and the link down and disconnected it;
\* the publish trigger of the same iteration has then published nothing
C23_Witness ==
  /\ SawLinkDown
  /\ obs.it.session
  /\ ~session
  /\ pc = "yield"
  /\ obs.it.pumps = 0
  /\ Len(obs.pubs) = 2
  /\ \A i \in DOMAIN obs.pubs : obs.pubs[i].msgs = <<>>

(***************************************************************************)
(* The loop around the wrap of the millisecond counter (main.cpp:154-245). *)
(* The node has been up for almost 2^w ms: the link is up, the session is  *)
(* the one connected and subscribed by setup() or repaired a moment ago,   *)
(* and the previous iteration has just ended.                              *)
(***************************************************************************)
\* how long before the wrap the explored iterations start
WrapLeads == {2 * StallMillis, 3 * StallMillis + LoopDelay}

\* how long after the wrap the last explored iteration may start
WrapWindow == (MaxIter + 1) * StallMillis

InitWrap ==
  /\ pc = "loop_top"
  /\ ret = "none"
  /\ clock \in {Word - lead : lead \in WrapLeads}
  /\ iter = 0
  /\ link = TRUE
  /\ session = TRUE
  /\ subscribed = TRUE
  /\ attempts = 0
  /\ sensorAvailable = FALSE
  /\ currentMillis = clock - LoopDelay
  /\ sensorData = [current |-> 0, voltage |-> 0, power |-> 0,
                   timestamp |-> Millis(currentMillis)]
  /\ lastWiFiCheck = clock - 2 * StallMillis
  /\ lastStatusPrint = lastWiFiCheck
  /\ lastMqttReconnectAttempt \in {0, lastWiFiCheck}
  /\ lastSensorRead = currentMillis
  /\ lastMqttPublish = currentMillis
  /\ ch1_state = FALSE
  /\ ch2_state = FALSE
  /\ pin = [p \in {RELAY_CH1_PIN, RELAY_CH2_PIN} |-> RELAY_OFF]
  /\ call = "none"
  /\ ops = <<>>
  /\ cbpc = "idle"
  /\ msg = NoMsg
  /\ doc = NoDoc
  /\ di = 1
  /\ obs = [ObsInit EXCEPT !.captured = TRUE]

\* main.cpp:247: delay(10), the iteration having taken d in all
YieldWrap ==
  /\ pc = "yield"
  /\ clock < Word + WrapWindow
  /\ \E d \in LiveDelays :
       /\ clock' = clock + d
       /\ obs' = [obs EXCEPT !.stall = d, !.gap = -1, !.it = NoIt, !.pubs = <<>>]
  /\ pc' = "loop_top"
  /\ UNCHANGED <<ret, iter, link, session, subscribed, attempts, sensorAvailable,
                 sensorData, timerVars, relayVars, cbVars>>

NextWrap ==
  \/ WiFiBegin
  \/ WiFiPoll
  \/ WiFiVerify
  \/ MqttBegin
  \/ MqttTry
  \/ LoopTop
  \/ WiFiChecked
  \/ Session
  \/ MqttRepaired
  \/ Pump
  \/ CallbackParse
  \/ CallbackStep
  \/ RelayStep
  \/ CallbackEnd
  \/ CallbackReturn
  \/ Sample
  \/ Publish
  \/ PublishStatus
  \/ YieldWrap
  \/ LinkUp
  \/ LinkDown
  \/ SessionDrop

SpecWrap == InitWrap /\ [][NextWrap]_vars

\* a concern with timestamp last, tested at time now, triggers exactly when at least its
\* interval has elapsed
Transparent(fired, now, last, interval) == fired <=> (now - last >= interval)

\* a concern triggers exactly when the elapsed time modulo 2^w has reached its interval:
\* with a timestamp less than 2^w ms old that is the elapsed time itself
Modular(fired, now, last, interval) ==
  /\ now - last < Word => (fired <=> now - last >= interval)
  /\ now - last >= Word => (fired <=> (now - last) % Word >= interval)
  /\ fired => now - last >= interval

\* C24 (as stated): across a wrap of the counter every concern triggers in its step
\* exactly when its interval of time has elapsed since its timestamp: the link check,
\* the session repair (tested with the link up and the session down), the sensor
\* capture and the publish.
C24_WrapTransparent ==
  [][/\ (pc = "loop_top" /\ pc' # pc)
          => Transparent(lastWiFiCheck' # lastWiFiCheck \/ pc' = "wifi_begin",
                         clock, lastWiFiCheck, WIFI_CHECK_INTERVAL)
     /\ (pc = "session" /\ pc' # pc /\ link /\ ~session)
          => Transparent(pc' = "mqtt_begin", currentMillis, lastMqttReconnectAttempt,
                         MQTT_RECONNECT_INTERVAL)
     /\ (pc = "sample" /\ pc' # pc)
          => Transparent(lastSensorRead' # lastSensorRead, clock, lastSensorRead,
                         SENSOR_READ_INTERVAL)
     /\ (pc = "publish" /\ pc' # pc)
          => Transparent(pc' = "publish_status", currentMillis, lastMqttPublish,
                         MQTT_PUBLISH_INTERVAL)]_vars

\* C24 amended: every concern triggers in its step exactly when now - last modulo 2^w is
\* at least its interval, and never before its interval has elapsed. The timestamps of
\* the link check, the sensor capture and the publish are less than 2^w ms old at every
\* test, so for them a wrap changes nothing; the timestamp of the session repair can be
\* older, and then the repair waits until the remainder reaches the interval.
C24_ModularTrigger ==
  [][/\ (pc = "loop_top" /\ pc' # pc)
          => /\ Modular(lastWiFiCheck' # lastWiFiCheck \/ pc' = "wifi_begin",
                        clock, lastWiFiCheck, WIFI_CHECK_INTERVAL)
             /\ clock - lastWiFiCheck < Word
     /\ (pc = "session" /\ pc' # pc /\ link /\ ~session)
          => Modular(pc' = "mqtt_begin", currentMillis, lastMqttReconnectAttempt,
                     MQTT_RECONNECT_INTERVAL)
     /\ (pc = "sample" /\ pc' # pc)
          => /\ Modular(lastSensorRead' # lastSensorRead, clock, lastSensorRead,
                        SENSOR_READ_INTERVAL)
             /\ clock - lastSensorRead < Word
     /\ (pc = "publish" /\ pc' # pc)
          => /\ Modular(pc' = "publish_status", currentMillis, lastMqttPublish,
                        MQTT_PUBLISH_INTERVAL)
             /\ currentMillis - lastMqttPublish < Word]_vars

\* the publish trigger has fired with the counter wrapped since its timestamp: the
\* counter value sampled is below the one stored
C24_Witness ==
  /\ pc = "publish_status"
  /\ lastMqttPublish < Word
  /\ currentMillis >= Word
  /\ Millis(currentMillis) < Millis(lastMqttPublish)

\* the session was lost after the wrap with its repair timestamp still the 0 of boot:
\* the session step has found the repair not due, 2^w ms and more after boot
RepairLateAfterWrap ==
  /\ pc = "sample"
  /\ obs.it.checked /\ obs.it.link /\ ~obs.it.session
  /\ lastMqttReconnectAttempt = 0
  /\ currentMillis >= Word
  /\ ~session

====
